---- MODULE Spec2Model ----
(***************************************************************************)
(* Audio deep dream: src/deep_dream.py (Model, DataPreprocessor,           *)
(* Denormalize) and src/dataset.py (ExtractStft).                          *)
(*                                                                         *)
(* Spec models the activation-maximisation driver: Model.__init__,         *)
(* Model.transform, _transform_single_normal_deep_dream and                *)
(* calc_grad_tiled.  Tensors are modelled by their shape; inside           *)
(* calc_grad_tiled every element carries the index of the input element    *)
(* it stems from, so that placement can be observed.  Indices are 0-based  *)
(* as in the source.                                                       *)
(***************************************************************************)
EXTENDS Integers, Sequences, FiniteSets, TLC

(* ------------------------------ bounds -------------------------------- *)

\* Largest height and width of a representation handed to Model.transform.
MaxH == 5
MaxW == 5
\* Largest n_octaves and number_of_iterations given to Model.__init__.
MaxOctaves == 3
MaxIterations == 2
\* Seeds given to Model.__init__ are 0..MaxSeed.
MaxSeed == 1
\* Number of Model.transform invocations made on one Model.
MaxInvocations == 3
\* The tile extent of calc_grad_tiled (the default argument, scaled down to
\* the sizes above).
tile_size == 2

\* Largest number of frequency rows of a spectrum, and the largest
\* compressed magnitude (magnitude ** (1/8)) of a row.
MaxBins == 3
MaxMag == 2

(* ------------------------------ helpers ------------------------------- *)

Max(a, b) == IF a >= b THEN a ELSE b

\* The layers of Classifier.layers_blocks, in order.
layers_blocks == <<"conv_1", "residual_1a", "residual_1b", "fc">>

\* "residual" in layer_name
IsResidual(layer_name) == layer_name \in {"residual_1a", "residual_1b"}

\* The block names a caller may pass.
BlockNames == {"residual_1a", "conv_1"}

\* The representations handed to Model.transform: numpy shape (h, w, c).
Inputs == {<<h, w, c>> : h \in 1..MaxH, w \in 1..MaxW, c \in 1..2}

(* ---------------------- numpy RandomState ----------------------------- *)

\* np.random.RandomState(seed): the generator's state after seeding.
RandomState(s) == s % 16

\* One step of the generator.  numpy's generator is modelled by a
\* full-period congruential stream: what matters is that the values drawn
\* are a function of the seed and of the number of draws made.
RngAdvance(state) == (5 * state + 3) % 16

\* The value in [0, high) a state yields.
RngValue(state, high) == (state \div 2) % high

\* A generator seeded anew at every call.
RngReseeded(state, high) ==
    LET s1 == RngAdvance(RandomState(0))
        s2 == RngAdvance(s1)
    IN  [sx |-> RngValue(s1, high), sy |-> RngValue(s2, high), state |-> s2]

\* rng.randint(high, size=2): two successive draws and the state after them.
randint(state, high) ==
    LET s1 == RngAdvance(state)
        s2 == RngAdvance(s1)
    IN  [sx |-> RngValue(s1, high), sy |-> RngValue(s2, high), state |-> s2]

(* --------------------------- tensors ---------------------------------- *)

\* The element indices of a torch tensor of shape (c, h, w).
Pos(shape) == (0..(shape[1] - 1)) \X (0..(shape[2] - 1)) \X (0..(shape[3] - 1))

\* A tensor: its shape and its elements.
Tensor(shape, f) == [shape |-> shape, at |-> f]

\* The tensor handed to calc_grad_tiled: element p is input element p.
InputTensor(shape) == Tensor(shape, [p \in Pos(shape) |-> p])

\* torch.zeros_like
zeros_like(t) == Tensor(t.shape, [p \in Pos(t.shape) |-> <<>>])

\* pytorch_extensions.roll: circular shift along one axis (0-based axis):
\* the element at index i moves to index (i + shift) mod n.
roll(x, shift, axis) ==
    LET n == x.shape[axis + 1]
        src(p) == [p EXCEPT ![axis + 1] = (p[axis + 1] - shift) % n]
    IN  Tensor(x.shape, [p \in Pos(x.shape) |-> x.at[src(p)]])

(* --------------------------- numpy shapes ------------------------------ *)

\* What an operation that raises yields in place of a shape.
Raised == <<>>

\* cv2.resize(src, dsize) with dsize = (width, height): the shape of the
\* result.  An empty dsize and an array of more than three dimensions are
\* rejected; a single channel is returned without its channel axis.
cv2_resize(src, dsize) ==
    IF dsize[1] <= 0 \/ dsize[2] <= 0 \/ Len(src) > 3 \/ Len(src) < 2
    THEN Raised
    ELSE IF Len(src) = 3 /\ src[3] > 1
         THEN <<dsize[2], dsize[1], src[3]>>
         ELSE <<dsize[2], dsize[1]>>

\* a[..., None]
NewAxis(shape) == IF shape = Raised THEN Raised ELSE Append(shape, 1)

\* np.int32(np.float32(n) / octave_scale) for the default octave_scale 1.4
Scaled(n) == (n * 10) \div 14

\* The shape of a - b and a + b under numpy's broadcasting rule.
Broadcast(a, b) ==
    IF a = Raised \/ b = Raised THEN Raised
    ELSE LET n == Max(Len(a), Len(b))
             da(k) == IF k <= n - Len(a) THEN 1 ELSE a[k - (n - Len(a))]
             db(k) == IF k <= n - Len(b) THEN 1 ELSE b[k - (n - Len(b))]
         IN  IF \A k \in 1..n : da(k) = db(k) \/ da(k) = 1 \/ db(k) = 1
             THEN [k \in 1..n |-> Max(da(k), db(k))]
             ELSE Raised

\* hw[::-1] for hw = shape[:2]
ReversedHW(shape) == <<shape[2], shape[1]>>

\* seq[k] for a forward index, the slip the negative index guards against.
ForwardIndex(seq, k) == seq[k]

\* seq[-k] of Python
NegIndex(seq, k) == seq[Len(seq) - k + 1]

\* One pass of the decomposition loop: lo, hi (Raised when a call raises).
DecomposeStep(s) ==
    LET lo == NewAxis(cv2_resize(s, <<Scaled(s[2]), Scaled(s[1])>>))
        up == IF lo = Raised THEN Raised
              ELSE NewAxis(cv2_resize(lo, ReversedHW(s)))
    IN  [lo |-> lo, hi |-> Broadcast(s, up)]

\* The recombination at the start of octave > 0.
Recombine(s, hi) == Broadcast(NewAxis(cv2_resize(s, ReversedHW(hi))), hi)

\* tensor.permute(order) / ndarray.transpose(order), order 0-based
Permute(shape, order) == [k \in 1..Len(order) |-> shape[order[k] + 1]]

(* ------------------------------ tiles --------------------------------- *)

\* The stop bound of a tile loop without the half-tile allowance.
FullStop(n) == n

\* max(h - tile_size // 2, tile_size)
TileStop(n) == Max(n - tile_size \div 2, tile_size)

\* The elements of tensor[:, y:y + tile_size, x:x + tile_size]
Frame(shape, y, x) ==
    {p \in Pos(shape) : /\ y <= p[2] /\ p[2] < y + tile_size
                        /\ x <= p[3] /\ p[3] < x + tile_size}

\* An assignment that reaches channel 0 only.
AssignChannel0(g, y, x, shifted) ==
    Tensor(g.shape, [p \in Pos(g.shape) |->
        IF p \in Frame(g.shape, y, x) /\ p[1] = 0 THEN shifted.at[p] ELSE g.at[p]])

\* grads[:, y:y + tile_size, x:x + tile_size] = grad, where grad is the
\* gradient of the objective with respect to the frame: its element at p is
\* the derivative with respect to the input element that the shift put at p.
TileAssign(g, y, x, shifted) ==
    Tensor(g.shape, [p \in Pos(g.shape) |->
        IF p \in Frame(g.shape, y, x) THEN shifted.at[p] ELSE g.at[p]])

\* Rolling again by (sx, sy) instead of back.
ShiftAgain(g, dx, dy) == roll(roll(g, dx, 2), dy, 1)

\* roll(roll(grads, -sx, axis=2), -sy, axis=1)
Unshift(g, dx, dy) == roll(roll(g, -dx, 2), -dy, 1)

(* ------------------------------ state --------------------------------- *)

VARIABLES
    pc,                     \* where the Model is in its code
    error,                  \* the exception a run ended with, "" when none
    block_name,             \* Model._block_name
    n_octaves,              \* Model._n_octaves
    number_of_iterations,   \* Model._number_of_iterations
    seed,                   \* the seed given to __init__
    np_rng,                 \* Model._np_rng, the generator's state
    available_layers_names, \* Model._available_layers_names
    available_layers,       \* the keys of Model._available_layers
    input,                  \* shape of the stft the caller hands to transform
    stft,                   \* shape of the driver's stft
    octaves,                \* the list octaves: one record per stored hi
    i,                      \* the decomposition loop's i
    octave,                 \* the octave loop's octave
    iteration,              \* the iteration loop's i
    shift,                  \* (sx, sy) of the running calc_grad_tiled
    stft_shift,             \* calc_grad_tiled's stft_shift
    grads,                  \* calc_grad_tiled's grads
    tile,                   \* (y, x) of the tile loops
    result,                 \* what calc_grad_tiled returned last
    prediction,             \* what the driver returned last (a shape)
    writes,                 \* per element: tile assignments that covered it
    added,                  \* the recombinations of the running transform
    calls,                  \* calc_grad_tiled calls of the running transform
    updates,                \* ascent updates of the running transform
    forward_passes,         \* classifier forward passes since construction
    ascended,               \* channels some ascent update has changed
    drawn,                  \* every (sx, sy) drawn since construction
    shifts,                 \* the (sx, sy) drawn by the running transform
    runs                    \* finished transforms: input and shifts drawn

modelVars == <<pc, error, block_name, n_octaves, number_of_iterations, seed,
               np_rng, available_layers_names, available_layers, input, stft,
               octaves, i, octave, iteration, shift, stft_shift, grads, tile,
               result, prediction, writes, added, calls, updates,
               forward_passes, ascended, drawn, shifts, runs>>

\* The state of the spectral codec (SpecCodec, below).
VARIABLES
    cpc,        \* where the codec is in its code
    cerror,     \* the exception it ended with, "" when none
    fouriered,  \* librosa.stft(flac): rows of magnitude and angle
    ret,        \* what get_stft returned
    mag_max,    \* mag.max() inside get_stft
    phase,      \* phase inside get_stft
    output,     \* the tuple DataPreprocessor.transform appended
    istft_arg   \* the rows Denormalize.transform hands to librosa.istft

codecVars == <<cpc, cerror, fouriered, ret, mag_max, phase, output, istft_arg>>

vars == <<modelVars, codecVars>>

configVars == <<block_name, n_octaves, number_of_iterations, seed>>

calcVars == <<shift, stft_shift, grads, tile, result, writes>>

NoTensor == Tensor(<<1, 1, 1>>, [p \in Pos(<<1, 1, 1>>) |-> <<>>])

NoWrites == [p \in Pos(<<1, 1, 1>>) |-> 0]

\* The arguments of a Model(...) call, before __init__ has run, and the
\* representation its caller will hand to transform.
ModelNew ==
    /\ pc = "new"
    /\ error = ""
    /\ block_name \in BlockNames
    /\ n_octaves \in 1..MaxOctaves
    /\ number_of_iterations \in 1..MaxIterations
    /\ seed \in 0..MaxSeed
    /\ np_rng = 0
    /\ available_layers_names = <<>>
    /\ available_layers = {}
    /\ input \in Inputs
    /\ stft = <<1, 1, 1>>
    /\ octaves = <<>>
    /\ i = 0
    /\ octave = 0
    /\ iteration = 0
    /\ shift = <<0, 0>>
    /\ stft_shift = NoTensor
    /\ grads = NoTensor
    /\ tile = <<0, 0>>
    /\ result = NoTensor
    /\ prediction = Raised
    /\ writes = NoWrites
    /\ added = <<>>
    /\ calls = 0
    /\ updates = 0
    /\ forward_passes = 0
    /\ ascended = {}
    /\ drawn = <<>>
    /\ shifts = <<>>
    /\ runs = <<>>

\* The names of the layers __init__ hooks, in order.
HookedNames ==
    LET Pick[k \in 0..Len(layers_blocks)] ==
            IF k = 0 THEN <<>>
            ELSE IF IsResidual(layers_blocks[k])
                 THEN Append(Pick[k - 1], layers_blocks[k])
                 ELSE Pick[k - 1]
    IN  Pick[Len(layers_blocks)]

\* Model.__init__: it stores its arguments, seeds the generator and hooks
\* the residual layers.  block_name is stored and not looked at.
ModelInit ==
    /\ pc = "new"
    /\ pc' = "idle"
    /\ np_rng' = RandomState(seed)
    /\ available_layers_names' = HookedNames
    /\ available_layers' = {}
    /\ UNCHANGED <<codecVars, error, configVars, input, stft, octaves, i, octave,
                   iteration, calcVars, prediction, added, calls, updates,
                   forward_passes, ascended, drawn, shifts, runs>>

\* for i in range(self._n_octaves - 1): where the driver goes when i is k.
AfterDecompose(k) == IF k < n_octaves - 1 THEN "decompose" ELSE "octave"

\* An iteration loop that runs once too often.
OneMoreIteration(k) == IF k <= number_of_iterations THEN "calc" ELSE "octave_end"

\* for i in trange(self._number_of_iterations): where the driver goes when
\* i is k.
AfterAscend(k) == IF k < number_of_iterations THEN "calc" ELSE "octave_end"

\* for octave in trange(self._n_octaves): where the driver goes when octave
\* is k.
AfterOctave(k) == IF k < n_octaves THEN "octave" ELSE "return"

\* Model.transform is called with one (stft, sample_rate, mag_max_value,
\* phase), stft being the caller's representation;
\* _transform_single_normal_deep_dream starts on it.
Transform ==
    /\ pc = "idle"
    /\ Len(runs) < MaxInvocations
    /\ stft' = input
    /\ octaves' = <<>>
    /\ i' = 0
    /\ octave' = 0
    /\ iteration' = 0
    /\ added' = <<>>
    /\ calls' = 0
    /\ updates' = 0
    /\ shifts' = <<>>
    /\ prediction' = Raised
    /\ pc' = AfterDecompose(0)
    /\ UNCHANGED <<codecVars, error, configVars, np_rng, available_layers_names,
                   available_layers, input, calcVars, forward_passes,
                   ascended, drawn, runs>>

\* One pass of "for i in range(self._n_octaves - 1)".
Decompose ==
    /\ pc = "decompose"
    /\ LET d == DecomposeStep(stft)
       IN  IF d.lo = Raised \/ d.hi = Raised
           THEN /\ pc' = "error"
                /\ error' = "cv2.error"
                /\ UNCHANGED <<stft, octaves, i>>
           ELSE /\ stft' = d.lo
                /\ octaves' = Append(octaves, [step |-> i, shape |-> d.hi])
                /\ i' = i + 1
                /\ pc' = AfterDecompose(i + 1)
                /\ UNCHANGED error
    /\ UNCHANGED <<codecVars, configVars, np_rng, available_layers_names,
                   available_layers, input, octave, iteration, calcVars,
                   prediction, added, calls, updates, forward_passes,
                   ascended, drawn, shifts, runs>>

\* The head of one octave: the recombination when octave > 0, then the
\* conversion to a (c, h, w) tensor.
OctaveBegin ==
    /\ pc = "octave"
    /\ LET hi == IF octave > 0 THEN NegIndex(octaves, octave)
                 ELSE [step |-> -1, shape |-> stft]
           s  == IF octave > 0 THEN Recombine(stft, hi.shape) ELSE stft
       IN  IF s = Raised \/ Len(s) # 3
           THEN /\ pc' = "error"
                /\ error' = IF s = Raised THEN "cv2.error" ELSE "RuntimeError"
                /\ UNCHANGED <<stft, added>>
           ELSE /\ stft' = Permute(s, <<2, 0, 1>>)
                /\ added' = IF octave > 0
                            THEN Append(added, [octave |-> octave,
                                                step |-> hi.step,
                                                hi |-> hi.shape, sum |-> s])
                            ELSE added
                /\ pc' = "calc"
                /\ UNCHANGED error
    /\ iteration' = 0
    /\ UNCHANGED <<codecVars, configVars, np_rng, available_layers_names,
                   available_layers, input, octaves, i, octave, calcVars,
                   prediction, calls, updates, forward_passes, ascended,
                   drawn, shifts, runs>>

\* The start of calc_grad_tiled: h, w, the shift drawn from _np_rng, the
\* rolled stft and the zeroed accumulator.
CalcBegin ==
    /\ pc = "calc"
    /\ LET r == randint(np_rng, tile_size)
           t == InputTensor(stft)
       IN  /\ np_rng' = r.state
           /\ shift' = <<r.sx, r.sy>>
           /\ drawn' = Append(drawn, <<r.sx, r.sy>>)
           /\ shifts' = Append(shifts, <<r.sx, r.sy>>)
           /\ stft_shift' = roll(roll(t, r.sx, 2), r.sy, 1)
           /\ grads' = zeros_like(t)
           /\ writes' = [p \in Pos(stft) |-> 0]
    /\ tile' = <<0, 0>>
    /\ calls' = calls + 1
    /\ pc' = "tile"
    /\ UNCHANGED <<codecVars, error, configVars, available_layers_names,
                   available_layers, input, stft, octaves, i, octave,
                   iteration, result, prediction, added, updates,
                   forward_passes, ascended, runs>>

\* The tile after (y, x) in the two nested range loops, <<>> after the last.
NextTile(y, x, h, w) ==
    IF x + tile_size < TileStop(w) THEN <<y, x + tile_size>>
    ELSE IF y + tile_size < TileStop(h) THEN <<y + tile_size, 0>>
    ELSE <<>>

\* One pass of the inner tile loop: the forward pass on the frame, the
\* lookup of the captured activation, the backward pass and the assignment.
Tile ==
    /\ pc = "tile"
    /\ forward_passes' = forward_passes + 1
    /\ available_layers' = {available_layers_names[k] :
                                k \in 1..Len(available_layers_names)}
    /\ IF block_name \notin available_layers'
       THEN /\ pc' = "error"
            /\ error' = "KeyError"
            /\ UNCHANGED <<grads, writes, tile>>
       ELSE /\ grads' = TileAssign(grads, tile[1], tile[2], stft_shift)
            /\ writes' = [p \in Pos(stft) |->
                            IF p \in Frame(stft, tile[1], tile[2])
                            THEN writes[p] + 1 ELSE writes[p]]
            /\ LET n == NextTile(tile[1], tile[2], stft[2], stft[3])
               IN  IF n = <<>>
                   THEN pc' = "unroll" /\ tile' = tile
                   ELSE pc' = "tile" /\ tile' = n
            /\ UNCHANGED error
    /\ UNCHANGED <<codecVars, configVars, np_rng, available_layers_names, input, stft,
                   octaves, i, octave, iteration, shift, stft_shift, result,
                   prediction, added, calls, updates, ascended, drawn,
                   shifts, runs>>

\* The channels in which a gradient has a written element.  The
\* classifier's gradient is taken not to vanish where it is computed (the
\* classifier reads every channel of its input).
Channels(g) == {p[1] : p \in {q \in Pos(g.shape) : g.at[q] # <<>>}}

\* The end of calc_grad_tiled and the ascent update of the driver: the
\* accumulator is rolled back and returned, scaled by a positive factor
\* and added to stft.
Ascend ==
    /\ pc = "unroll"
    /\ result' = Unshift(grads, shift[1], shift[2])
    /\ ascended' = ascended \cup Channels(result')
    /\ updates' = updates + 1
    /\ iteration' = iteration + 1
    /\ pc' = AfterAscend(iteration + 1)
    /\ UNCHANGED <<codecVars, error, configVars, np_rng, available_layers_names,
                   available_layers, input, stft, octaves, i, octave, shift,
                   stft_shift, grads, tile, writes, prediction, added, calls,
                   forward_passes, drawn, shifts, runs>>

\* The end of one octave: back to an (h, w, c) array.
OctaveEnd ==
    /\ pc = "octave_end"
    /\ stft' = Permute(stft, <<1, 2, 0>>)
    /\ octave' = octave + 1
    /\ pc' = AfterOctave(octave + 1)
    /\ UNCHANGED <<codecVars, error, configVars, np_rng, available_layers_names,
                   available_layers, input, octaves, i, iteration, calcVars,
                   prediction, added, calls, updates, forward_passes,
                   ascended, drawn, shifts, runs>>

\* The driver returns stft and Model.transform returns its output.
Return ==
    /\ pc = "return"
    /\ prediction' = stft
    /\ runs' = Append(runs, [input |-> input, shifts |-> shifts])
    /\ pc' = "idle"
    /\ UNCHANGED <<codecVars, error, configVars, np_rng, available_layers_names,
                   available_layers, input, stft, octaves, i, octave,
                   iteration, calcVars, added, calls, updates,
                   forward_passes, ascended, drawn, shifts>>

(***************************************************************************)
(* SpecCodec models the spectral codec: ExtractStft.get_stft,              *)
(* DataPreprocessor.transform and Denormalize.transform.  A spectrum is a  *)
(* sequence of frequency rows of one frame; every row carries the index    *)
(* (bin) librosa.stft gave it.  Numbers are held in halves (255 is 127.5), *)
(* as <<v>>; <<>> is NaN.                                                  *)
(***************************************************************************)

NaN == <<>>

\* Python values: an ndarray with its rows, a float, None.
Array(rows) == [t |-> "ndarray", v |-> rows]

Float(x) == [t |-> "float", v |-> <<x>>]

None == [t |-> "None", v |-> <<>>]

\* The angles of a row, in quarter turns.
Angles == {0, 1}

\* m ** 8
Pow8(m) == m * m * m * m * m * m * m * m

\* The spectra of the waveforms: magnitude and angle per frequency row.
Spectra ==
    UNION {[1..n -> [mag : {Pow8(m) : m \in 0..MaxMag}, ang : Angles]] :
               n \in 1..MaxBins}

\* np.power(mag, 1 / 8) on the magnitudes above
Root8(v) == CHOOSE m \in 0..MaxMag : Pow8(m) = v

\* The largest of a non-empty set of numbers.
MaxOf(S) == CHOOSE v \in S : \A u \in S : u <= v

\* a / b of numpy on floats, a and b in units of one: 0 / 0 is NaN (a
\* warning, no exception); the quotient times 255, in halves.
Times255Over(a, b) == IF b = 0 THEN NaN ELSE <<(2 * 255 * a) \div b>>

\* 1 - v, v in halves
OneMinus(v) == IF v = NaN THEN NaN ELSE <<2 - v[1]>>

\* The rows of get_stft's stacked array for a spectrum.
Stacked(f) ==
    LET mx == MaxOf({Root8(f[k].mag) : k \in 1..Len(f)})
    IN  [k \in 1..Len(f) |->
            [bin |-> k,
             mag |-> OneMinus(Times255Over(Root8(f[k].mag), mx)),
             ph  |-> <<f[k].ang * 255>>]]

\* phase of librosa.magphase: one unit complex number per row.
Phase(f) == [k \in 1..Len(f) |-> [bin |-> k, ang |-> f[k].ang]]

\* mag.max() after the compression
MagMax(f) == MaxOf({Root8(f[k].mag) : k \in 1..Len(f)})

CodecNew ==
    /\ cpc = "start"
    /\ cerror = ""
    /\ fouriered \in Spectra
    /\ ret = None
    /\ mag_max = 0
    /\ phase = <<>>
    /\ output = <<>>
    /\ istft_arg = <<>>

\* ExtractStft.get_stft: it returns stacked, and stacked alone.
GetStft ==
    /\ cpc = "start"
    /\ mag_max' = MagMax(fouriered)
    /\ phase' = Phase(fouriered)
    /\ ret' = Array(Stacked(fouriered))
    /\ cpc' = "stft"
    /\ UNCHANGED <<cerror, fouriered, output, istft_arg, modelVars>>

\* a, b, c = value for an ndarray: Python iterates it along its first
\* axis and raises ValueError unless that yields three rows.
Unpack3(value) ==
    IF Len(value.v) = 3 THEN [k \in 1..3 |-> Array(<<value.v[k]>>)] ELSE Raised

\* DataPreprocessor.transform, one pass of its loop:
\*   stacked, phase, mag_max_value = ExtractStft.get_stft(signal)
\*   output.append((stacked, sample_rate, mag_max_value, phase))
Preprocess ==
    /\ cpc = "stft"
    /\ LET u == Unpack3(ret)
       IN  IF u = Raised
           THEN /\ cpc' = "error"
                /\ cerror' = "ValueError"
                /\ UNCHANGED output
           ELSE /\ cpc' = "preprocessed"
                /\ output' = <<u[1], "sample_rate", u[3], u[2]>>
                /\ UNCHANGED cerror
    /\ UNCHANGED <<fouriered, ret, mag_max, phase, istft_arg, modelVars>>

\* v + 127.5, v in halves
Plus127_5(v) == IF v = NaN THEN NaN ELSE <<v[1] + 255>>

\* np.flipud
flipud(rows) == [k \in 1..Len(rows) |-> rows[Len(rows) + 1 - k]]

\* stft.max(): NaN as soon as one element is NaN
ArrayMax(level) ==
    IF \E k \in 1..Len(level) : level[k] = NaN THEN NaN
    ELSE <<MaxOf({level[k][1] : k \in 1..Len(level)})>>

\* Denormalize.transform, one pass of its loop up to the librosa.istft
\* call, on the tuple (stft, fs, mag_max_value, phase): row k handed to
\* istft is (1 - level / top) * scale, raised to 1 / MAGNITUDE_NONLINEARITY,
\* times phase row k.
DenormalizeRows(x) ==
    LET flipped == flipud(x[1].v)
        level == [k \in 1..Len(flipped) |-> Plus127_5(flipped[k].mag)]
    IN  [k \in 1..Len(flipped) |->
            [mag_bin   |-> flipped[k].bin,
             level     |-> level[k],
             top       |-> ArrayMax(level),
             scale     |-> x[3].v[1],
             phase_bin |-> x[4].v[k].bin,
             ang       |-> x[4].v[k].ang]]

\* Denormalize.transform is called with the representation get_stft
\* computed (the driver returns a representation of the same shape and
\* row order, or this very one when it makes no ascent), and with the
\* mag_max_value and phase of the same forward transform.
Denormalize ==
    /\ cpc = "stft"
    /\ istft_arg' = DenormalizeRows(<<ret, "sample_rate", Float(mag_max), Array(phase)>>)
    /\ cpc' = "denormalized"
    /\ UNCHANGED <<cerror, fouriered, ret, mag_max, phase, output, modelVars>>

(* -------------------------- specifications ---------------------------- *)

\* The codec at rest while the driver is examined.
CodecOff ==
    /\ cpc = "off"
    /\ cerror = ""
    /\ fouriered = <<>>
    /\ ret = None
    /\ mag_max = 0
    /\ phase = <<>>
    /\ output = <<>>
    /\ istft_arg = <<>>

\* The driver at rest while the codec is examined.
ModelOff ==
    /\ pc = "off"
    /\ error = ""
    /\ block_name = "residual_1a"
    /\ n_octaves = 1
    /\ number_of_iterations = 1
    /\ seed = 0
    /\ np_rng = 0
    /\ available_layers_names = <<>>
    /\ available_layers = {}
    /\ input = <<1, 1, 1>>
    /\ stft = <<1, 1, 1>>
    /\ octaves = <<>>
    /\ i = 0
    /\ octave = 0
    /\ iteration = 0
    /\ shift = <<0, 0>>
    /\ stft_shift = NoTensor
    /\ grads = NoTensor
    /\ tile = <<0, 0>>
    /\ result = NoTensor
    /\ prediction = Raised
    /\ writes = NoWrites
    /\ added = <<>>
    /\ calls = 0
    /\ updates = 0
    /\ forward_passes = 0
    /\ ascended = {}
    /\ drawn = <<>>
    /\ shifts = <<>>
    /\ runs = <<>>

Init == ModelNew /\ CodecOff

Next ==
    \/ ModelInit
    \/ Transform
    \/ Decompose
    \/ OctaveBegin
    \/ CalcBegin
    \/ Tile
    \/ Ascend
    \/ OctaveEnd
    \/ Return

Spec == Init /\ [][Next]_vars

CodecInit == CodecNew /\ ModelOff

CodecNext ==
    \/ GetStft
    \/ Preprocess
    \/ Denormalize

SpecCodec == CodecInit /\ [][CodecNext]_vars

(* ------------------------------ claims -------------------------------- *)

\* The representation's height and width inside calc_grad_tiled.
H == stft[2]

W == stft[3]

\* Index k of an axis of length n lies in a tile row (column) that the
\* loops leave out: a row that is not the first and holds at most
\* tile_size // 2 indices.
Skipped(k, n) ==
    LET start == (k \div tile_size) * tile_size
    IN  start > 0 /\ n - start <= tile_size \div 2

\* C1 as stated: when the two tile loops have ended, every position of the
\* accumulator has been written by exactly one tile.
C1_EveryPositionOnce ==
    pc = "unroll" => \A p \in Pos(stft) : writes[p] = 1

\* C1, amended: no position is ever written by two tiles, and when the
\* loops have ended the positions written (once) are exactly those outside
\* the trailing rows and columns the stop bound leaves out; position
\* (0, 0) is always among them.
C1_TilesNeverOverlap ==
    /\ pc \in {"tile", "unroll"} => \A p \in Pos(stft) : writes[p] <= 1
    /\ pc = "unroll" =>
        /\ \A p \in Pos(stft) :
              writes[p] = 1 <=> ~Skipped(p[2], H) /\ ~Skipped(p[3], W)
        /\ \A ch \in 0..(stft[1] - 1) : writes[<<ch, 0, 0>>] = 1

\* C1's case: the loops have ended after more than one tile and left a
\* position unwritten.
C1_Witness ==
    /\ pc = "unroll"
    /\ tile # <<0, 0>>
    /\ \E p \in Pos(stft) : writes[p] = 0

Captured == {layers_blocks[k] : k \in {j \in 1..Len(layers_blocks) :
                                          IsResidual(layers_blocks[j])}}

\* C3: with a block_name that is not captured, construction ends in an
\* error and no forward pass is ever made.
C3_RejectedAtConstruction ==
    block_name \notin Captured =>
        /\ pc \in {"new", "error"}
        /\ forward_passes = 0
        /\ calls = 0

\* The generator's state after j steps from the seeding.
StreamState(j) ==
    LET S[k \in 0..j] == IF k = 0 THEN RandomState(seed)
                         ELSE (5 * S[k - 1] + 3) % 16
    IN  S[j]

\* The k-th pair (sx, sy) of the seed's stream, k = 1, 2, ...
StreamPair(k) ==
    <<(StreamState(2 * k - 1) \div 2) % tile_size,
      (StreamState(2 * k) \div 2) % tile_size>>

C8_PhaseChannelUntouched ==
    1 \notin ascended

\* C8, amended: the ascent treats all channels alike.  The gradient that
\* calc_grad_tiled returns is written in channel 1 at exactly the
\* positions at which it is written in channel 0, and the update adds it
\* to both: once an update has changed channel 0 of a two-channel
\* representation it has changed channel 1.
C8_AllChannelsAscend ==
    /\ \A p \in Pos(grads.shape) :
          grads.at[p] # <<>> <=> grads.at[<<0, p[2], p[3]>>] # <<>>
    /\ \A p \in Pos(result.shape) :
          result.at[p] # <<>> <=> result.at[<<0, p[2], p[3]>>] # <<>>
    /\ (updates > 0 /\ pc # "error") =>
          ascended = 0..(result.shape[1] - 1)

\* C8's case: an update has been made on a two-channel representation.
C8_Witness ==
    /\ updates > 0
    /\ stft[1] = 2
    /\ pc = "octave_end"
    /\ 1 \in ascended

\* C9: whatever the shift, the gradient calc_grad_tiled returns holds at
\* every position either nothing (no tile wrote it) or the gradient
\* computed for the input element at that very position.
C9_GradientAligned ==
    \A p \in Pos(result.shape) : result.at[p] \in {<<>>, p}

\* C9's case: calc_grad_tiled has returned after a shift that moved the
\* elements along both axes, with a gradient in place.
C9_Witness ==
    /\ pc \in {"calc", "octave_end"}
    /\ updates > 0
    /\ shift[1] % W # 0
    /\ shift[2] % H # 0
    /\ \E p \in Pos(result.shape) : result.at[p] = p

\* C4: for a silent input (largest compressed magnitude zero) get_stft
\* ends in an error and returns no representation.
C4_SilenceRejected ==
    (cpc # "start" /\ MagMax(fouriered) = 0) =>
        /\ cerror # ""
        /\ ret.t # "ndarray"

\* C5: get_stft returns the representation, mag_max_value and phase, and
\* DataPreprocessor.transform appends (representation, sample_rate,
\* mag_max_value, phase) of the forward transform, without an error
\* (taken for inputs that are not silent, so that C4 plays no part).
C5_HandsOnForwardValues ==
    (cpc \in {"preprocessed", "error"} /\ MagMax(fouriered) > 0) =>
        /\ cerror = ""
        /\ Len(output) = 4
        /\ output[1].t = "ndarray"
        /\ output[1].v = Stacked(fouriered)
        /\ output[3].t = "float"
        /\ output[3].v = <<MagMax(fouriered)>>
        /\ output[4].t = "ndarray"
        /\ output[4].v = Phase(fouriered)

\* C10: frequency row k of the forward spectrum reaches librosa.istft as
\* row k (the flips between the forward and the inverse transform cancel);
\* taken for inputs that are not silent, so that C4 plays no part.
C10_RowsReachIstftInPlace ==
    (cpc = "denormalized" /\ MagMax(fouriered) > 0) =>
        \A k \in 1..Len(istft_arg) :
            /\ istft_arg[k].mag_bin = k
            /\ istft_arg[k].phase_bin = k

====
